---------------------------- MODULE Spec2Model ----------------------------
(***************************************************************************)
(* A model of src/node_new.js: the literal-based type deducer              *)
(* (deduceElementType, deduceExpressionType), the annotation pass          *)
(* (addTypeAnnotations) and the directory run (transformJsFilesInDir,      *)
(* transformJsFileToTsFile).                                               *)
(*                                                                         *)
(* Three specifications share the module:                                  *)
(*   SpecDeduce   - the deducer applied to one expression                  *)
(*   SpecAnnotate - the annotation pass over a tree, run twice             *)
(*   SpecRun      - the run over the files of a directory                  *)
(***************************************************************************)
EXTENDS Naturals, Sequences, FiniteSets

VARIABLES
  expr,        \* SpecDeduce: the expression node handed to the deducer
  result,      \* SpecDeduce: what deduceExpressionType(expr) produced
  elemResult,  \* SpecDeduce: what deduceElementType(expr.elements) produced
  tree,        \* SpecAnnotate: the nodes of the AST in traversal order
  orig,        \* SpecAnnotate: the tree as the parser produced it
  pos,         \* SpecAnnotate: index of the next node the traversal enters
  pass,        \* SpecAnnotate: 1 = first call of addTypeAnnotations, 2 = second
  status,      \* SpecAnnotate: "running", "done" or "threw"
  writes,      \* SpecAnnotate: per node, how often each slot was assigned in this pass
  first,       \* SpecAnnotate: the tree as the first pass left it
  dirPath,     \* SpecRun: the directory handed to transformJsFilesInDir
  listing,     \* SpecRun: what readdirSync returned, in order
  fidx,        \* SpecRun: index of the directory entry being processed
  phase,       \* SpecRun: position inside the forEach callback
  written,     \* SpecRun: the writeFileSync calls made so far, in order
  failedAt     \* SpecRun: 0, or the index of the entry at which the run threw

deduceVars == <<expr, result, elemResult>>
annotVars  == <<tree, orig, pos, pass, status, writes, first>>
runVars    == <<dirPath, listing, fidx, phase, written, failedAt>>
vars       == <<expr, result, elemResult, tree, orig, pos, pass, status, writes,
                first, dirPath, listing, fidx, phase, written, failedAt>>

\* ------------------------------------------------------------------ bounds
MaxElems  == 3   \* longest array literal handed to the deducer
MaxStmts  == 3   \* longest function body of a one-node tree
MaxParams == 2   \* most parameters of a function of a one-node tree
MaxNodes  == 2   \* most nodes of a tree
MaxPieces == 2   \* most pieces a file name is built from
MaxFiles  == 2   \* most entries of a directory

\* Sequences over S of length 0..n.
SeqUpTo(S, n) == UNION {[1..k -> S] : k \in 0..n}

\* ------------------------------------------------------- expression nodes
\* An expression node: its Babel node type, the name of an Identifier, the
\* elements of an ArrayExpression.  An element is a node reduced to the two
\* fields deduceElementType reads (type, name); a hole is the element null.
Node(type, name, elements) == [type |-> type, name |-> name, elements |-> elements]
Elem(type, name) == [type |-> type, name |-> name]

Absent == Node("null", "", <<>>)   \* the JavaScript value null / undefined
Hole   == Elem("null", "")         \* an elided array element, e.g. [,1]

OtherTypes == {"CallExpression", "ObjectExpression", "TemplateLiteral", "BinaryExpression"}
LiteralTypes == {"NumericLiteral", "StringLiteral", "BooleanLiteral", "NullLiteral"}
IdentNames == {"undefined", "x"}

ElemNodes ==
  {Hole}
    \cup {Elem(ty, "") : ty \in LiteralTypes}
    \cup {Elem("Identifier", n) : n \in IdentNames}
    \cup {Elem(ty, "") : ty \in {"ArrayExpression", "CallExpression",
                                  "ObjectExpression", "SpreadElement"}}

ScalarExprs ==
  {Absent}
    \cup {Node(ty, "", <<>>) : ty \in LiteralTypes \cup OtherTypes}
    \cup {Node("Identifier", n, <<>>) : n \in IdentNames}

ArrayExprs == {Node("ArrayExpression", "", es) : es \in SeqUpTo(ElemNodes, MaxElems)}

Exprs == ScalarExprs \cup ArrayExprs

\* ------------------------------------------------------------- type tags
\* What the deducer hands back: a TS keyword node, a TSArrayType over a type
\* reference to the identifier `elem`, or the TypeError that t.identifier
\* raises when its name is not a string.
Type(tag, elem) == [tag |-> tag, elem |-> elem]
Keyword(tag) == Type(tag, "")
tsArrayType(elementType) == Type("TSArrayType", elementType)
Threw == Type("TypeError", "")
Unset == Type("unset", "")          \* a slot that holds no annotation
NotCalled == Type("not-called", "")

JSUndefined == "<undefined>"        \* the JavaScript value undefined (not the string)

\* src/node_new.js:18-30, the callback of elements.map
ElementTag(el) ==
  IF el = Hole THEN "null"
  ELSE CASE el.type = "NumericLiteral" -> "number"
         [] el.type = "StringLiteral"  -> "string"
         [] el.type = "BooleanLiteral" -> "boolean"
         [] el.type = "NullLiteral"    -> "null"
         [] el.type = "Identifier"     ->
              IF el.name = "undefined" THEN "undefined" ELSE JSUndefined
         [] OTHER                      -> "any"

\* src/node_new.js:14-35
deduceElementType(elements) ==
  IF Len(elements) = 0 THEN "any"
  ELSE LET elementTypes == {ElementTag(elements[i]) : i \in 1..Len(elements)}
       IN IF Cardinality(elementTypes) = 1
          THEN CHOOSE ty \in elementTypes : TRUE
          ELSE "any"

\* src/node_new.js:38-54
deduceExpressionType(expression) ==
  CASE expression.type = "NumericLiteral" -> Keyword("TSNumberKeyword")
    [] expression.type = "StringLiteral"  -> Keyword("TSStringKeyword")
    [] expression.type = "BooleanLiteral" -> Keyword("TSBooleanKeyword")
    [] expression.type = "NullLiteral"    -> Keyword("TSNullKeyword")
    [] expression.type = "Identifier" /\ expression.name = "undefined"
                                          -> Keyword("TSUndefinedKeyword")
    [] expression.type = "ArrayExpression" ->
         LET elementType == deduceElementType(expression.elements)
         IN IF elementType = JSUndefined THEN Threw ELSE tsArrayType(elementType)
    [] OTHER                              -> Keyword("TSAnyKeyword")

\* ------------------------------------------------------------ tree nodes
\* The nodes of a tree the pass can meet, in the order babelTraverse enters
\* them.  Nesting is not kept: a visitor reads only its own node, and of a
\* function's body only the immediate statements.
\*   type          VariableDeclarator, FunctionDeclaration,
\*                 ArrowFunctionExpression or FunctionExpression
\*   init          a declarator's initializer (Absent: none)
\*   idAnnotation  a declarator's id.typeAnnotation
\*   params        the typeAnnotation of each parameter
\*   returnType    the function's returnType
\*   block         the function's body is a BlockStatement
\*   body          the immediate statements of a block body
\*   bodyExpr      the body of an expression-bodied arrow function
Stmt(type, argument, nested) == [type |-> type, argument |-> argument, nested |-> nested]

Num  == Node("NumericLiteral", "", <<>>)
Str  == Node("StringLiteral", "", <<>>)
Bool == Node("BooleanLiteral", "", <<>>)
ArrX == Node("ArrayExpression", "", <<Elem("Identifier", "x")>>)   \* [x]

\* `return e;`, `return;`, `if (c) return e;` and `f();`
Return(argument) == Stmt("ReturnStatement", argument, Absent)
ReturnBare       == Stmt("ReturnStatement", Absent, Absent)
IfReturn(nested) == Stmt("IfStatement", Absent, nested)
ExprStmt         == Stmt("ExpressionStatement", Absent, Absent)

Stmts == {Return(Num), Return(Str), Return(ArrX), ReturnBare, IfReturn(Bool), ExprStmt}

Pre == Keyword("TSStringKeyword")   \* an annotation the source text already had
Slots == {Unset, Pre}

AnnotExprs == {e \in Exprs : Len(e.elements) <= 1}

Declarators ==
  {[type |-> "VariableDeclarator", init |-> e, idAnnotation |-> a, params |-> <<>>,
    returnType |-> Unset, block |-> FALSE, body |-> <<>>, bodyExpr |-> Absent]
     : e \in AnnotExprs, a \in Slots}

BlockTypes == {"FunctionDeclaration", "ArrowFunctionExpression", "FunctionExpression"}

BlockFunctions ==
  {[type |-> ty, init |-> Absent, idAnnotation |-> Unset, params |-> ps,
    returnType |-> rt, block |-> TRUE, body |-> b, bodyExpr |-> Absent]
     : ty \in BlockTypes, ps \in SeqUpTo(Slots, MaxParams), rt \in Slots,
       b \in SeqUpTo(Stmts, MaxStmts)}

ExprArrows ==
  {[type |-> "ArrowFunctionExpression", init |-> Absent, idAnnotation |-> Unset,
    params |-> ps, returnType |-> rt, block |-> FALSE, body |-> <<>>, bodyExpr |-> e]
     : ps \in SeqUpTo(Slots, MaxParams), rt \in Slots, e \in AnnotExprs \ {Absent}}

Nodes == Declarators \cup BlockFunctions \cup ExprArrows

\* The nodes trees of more than one node are built from.
IsSimple(n) ==
  /\ n.idAnnotation = Unset
  /\ n.init \in {Absent, Num, ArrX}
  /\ n.bodyExpr \in {Absent, Num, ArrX}
  /\ n.type # "VariableDeclarator" => Len(n.params) = 1
  /\ n.block => n.body = <<Return(Num)>>

SimpleNodes == {n \in Nodes : IsSimple(n)}

Trees ==
  {<<n>> : n \in Nodes} \cup UNION {[1..k -> SimpleNodes] : k \in 2..MaxNodes}

\* How often a visit assigned each slot of a node.
NoWrites(n) == [id |-> 0, params |-> [k \in 1..Len(n.params) |-> 0], ret |-> 0]

Visit(node, w, threw) == [node |-> node, w |-> w, threw |-> threw]

tsAnyKeyword  == Keyword("TSAnyKeyword")
tsVoidKeyword == Keyword("TSVoidKeyword")

\* The declarator visitor ignoring the initializer.
VariableDeclaratorAlwaysAny(n) ==
  Visit([n EXCEPT !.idAnnotation = Keyword("TSAnyKeyword")],
        [NoWrites(n) EXCEPT !.id = 1], FALSE)

\* The declarator visitor deducing only for an id that has no annotation yet.
VariableDeclaratorUnannotatedOnly(n) ==
  IF n.init # Absent /\ n.idAnnotation = Unset
  THEN LET inferredType == deduceExpressionType(n.init)
       IN IF inferredType = Threw
          THEN Visit(n, NoWrites(n), TRUE)
          ELSE Visit([n EXCEPT !.idAnnotation = inferredType],
                     [NoWrites(n) EXCEPT !.id = 1], FALSE)
  ELSE Visit([n EXCEPT !.idAnnotation = Keyword("TSAnyKeyword")],
             [NoWrites(n) EXCEPT !.id = 1], FALSE)

\* src/node_new.js:59-66
VariableDeclarator(n) ==
  IF n.init # Absent
  THEN LET inferredType == deduceExpressionType(n.init)
       IN IF inferredType = Threw
          THEN Visit(n, NoWrites(n), TRUE)
          ELSE Visit([n EXCEPT !.idAnnotation = inferredType],
                     [NoWrites(n) EXCEPT !.id = 1], FALSE)
  ELSE Visit([n EXCEPT !.idAnnotation = tsAnyKeyword],
             [NoWrites(n) EXCEPT !.id = 1], FALSE)

\* src/node_new.js:68-70 and 84-86: every parameter gets `any`
AnnotateParams(n) == [n EXCEPT !.params = [k \in 1..Len(n.params) |-> tsAnyKeyword]]
ParamWrites(n) == [NoWrites(n) EXCEPT !.params = [k \in 1..Len(n.params) |-> 1]]

\* src/node_new.js:74-78 and 90-94: the forEach over the body's statements;
\* each matching return statement overwrites returnType, a throwing
\* deduceExpressionType ends the loop.
RECURSIVE ScanReturns(_, _)
ScanReturns(statements, returnType) ==
  IF statements = <<>> THEN returnType
  ELSE LET statement == Head(statements)
       IN IF statement.type = "ReturnStatement" /\ statement.argument # Absent
          THEN LET deduced == deduceExpressionType(statement.argument)
               IN IF deduced = Threw THEN Threw
                  ELSE ScanReturns(Tail(statements), deduced)
          ELSE ScanReturns(Tail(statements), returnType)

\* Lines 71-81 and 87-99 once the candidate return type is known.
SetReturnType(n, returnType) ==
  IF returnType = Threw
  THEN Visit(AnnotateParams(n), ParamWrites(n), TRUE)
  ELSE Visit([AnnotateParams(n) EXCEPT !.returnType = returnType],
             [ParamWrites(n) EXCEPT !.ret = 1], FALSE)

\* src/node_new.js:67-82
FunctionDeclaration(n) ==
  IF n.returnType = Unset
  THEN SetReturnType(n, ScanReturns(n.body, tsVoidKeyword))
  ELSE Visit(AnnotateParams(n), ParamWrites(n), FALSE)

\* src/node_new.js:83-100
ArrowFunctionExpression(n) ==
  IF n.returnType = Unset
  THEN IF n.block
       THEN SetReturnType(n, ScanReturns(n.body, tsVoidKeyword))
       ELSE SetReturnType(n, deduceExpressionType(n.bodyExpr))
  ELSE Visit(AnnotateParams(n), ParamWrites(n), FALSE)

\* A node type the visitor object of lines 58-101 has no entry for.
NoVisitor(n) == Visit(n, NoWrites(n), FALSE)

\* ------------------------------------------------------- paths and files
\* A path is the sequence of its characters.
JsSuffix == <<".", "j", "s">>
TsSuffix == <<".", "t", "s">>

Pieces == {<<"a">>, JsSuffix}

RECURSIVE NamesOf(_)
NamesOf(k) ==
  IF k = 1 THEN Pieces
  ELSE NamesOf(k - 1) \cup {n \o p : n \in NamesOf(k - 1), p \in Pieces}

Names == NamesOf(MaxPieces)

Dirs == {<<"d">>, <<"d">> \o JsSuffix}

\* A directory entry: its name, and whether statSync(...).isFile() holds.
Entries == [name : Names, isFile : BOOLEAN]

Listings ==
  {l \in SeqUpTo(Entries, MaxFiles) :
     \A i, j \in 1..Len(l) : i # j => l[i].name # l[j].name}

\* String.prototype.endsWith
endsWith(s, suffix) ==
  /\ Len(s) >= Len(suffix)
  /\ SubSeq(s, Len(s) - Len(suffix) + 1, Len(s)) = suffix

\* String.prototype.replace with a string pattern: the first occurrence only.
replace(s, pattern, replacement) ==
  LET at == {i \in 1..Len(s) : /\ i + Len(pattern) - 1 <= Len(s)
                               /\ SubSeq(s, i, i + Len(pattern) - 1) = pattern}
  IN IF at = {} THEN s
     ELSE LET i == CHOOSE m \in at : \A o \in at : m <= o
          IN SubSeq(s, 1, i - 1) \o replacement \o SubSeq(s, i + Len(pattern), Len(s))

\* src/node_new.js:125, path.join(dirPath, file)
join(dir, file) == dir \o <<"/">> \o file

\* src/node_new.js:116
tsFilePath(jsFilePath) == replace(jsFilePath, JsSuffix, TsSuffix)

\* src/node_new.js:126, the condition of the if
IsJsFile(dir, entry) == entry.isFile /\ endsWith(join(dir, entry.name), JsSuffix)

\* The callback with the exception caught and the entry skipped.
CaughtAndSkipped(i, ph) == [phase |-> "stat", fidx |-> i + 1]

\* src/node_new.js:124-129: nothing catches an exception thrown inside the
\* forEach callback, so the run ends at entry i.
Uncaught(i, ph) == [phase |-> "threw", fidx |-> i]

\* -------------------------------------------------------------- the specs
IdleDeduce ==
  /\ expr = Absent
  /\ result = NotCalled
  /\ elemResult = "not-called"

IdleAnnotate ==
  /\ tree = <<>>
  /\ orig = <<>>
  /\ pos = 0
  /\ pass = 0
  /\ status = "idle"
  /\ writes = <<>>
  /\ first = <<>>

IdleRun ==
  /\ dirPath = <<>>
  /\ listing = <<>>
  /\ fidx = 0
  /\ phase = "idle"
  /\ written = <<>>
  /\ failedAt = 0

\* ---- SpecDeduce
InitDeduce ==
  /\ expr \in Exprs
  /\ result = NotCalled
  /\ elemResult = "not-called"
  /\ IdleAnnotate
  /\ IdleRun

\* deduceExpressionType(expr) is called
DeduceExpression ==
  /\ result = NotCalled
  /\ result' = deduceExpressionType(expr)
  /\ UNCHANGED <<expr, elemResult, annotVars, runVars>>

\* deduceElementType(expr.elements) is called on an array literal
DeduceElement ==
  /\ expr.type = "ArrayExpression"
  /\ elemResult = "not-called"
  /\ elemResult' = deduceElementType(expr.elements)
  /\ UNCHANGED <<expr, result, annotVars, runVars>>

NextDeduce == DeduceExpression \/ DeduceElement

SpecDeduce == InitDeduce /\ [][NextDeduce]_vars

\* ---- SpecAnnotate
InitAnnotate ==
  /\ tree \in Trees
  /\ orig = tree
  /\ pos = 1
  /\ pass = 1
  /\ status = "running"
  /\ writes = [i \in 1..Len(tree) |-> NoWrites(tree[i])]
  /\ first = <<>>
  /\ IdleDeduce
  /\ IdleRun

AddWrites(a, b) ==
  [id |-> a.id + b.id,
   params |-> [k \in 1..Len(a.params) |-> a.params[k] + b.params[k]],
   ret |-> a.ret + b.ret]

\* babelTraverse stands at a node of the given type
AtNode(type) ==
  /\ status = "running"
  /\ pos <= Len(tree)
  /\ tree[pos].type = type

\* The visitor's outcome v is applied to the node; an exception ends the pass
\* where it stands, otherwise the traversal moves on.
Leave(v) ==
  /\ tree' = [tree EXCEPT ![pos] = v.node]
  /\ writes' = [writes EXCEPT ![pos] = AddWrites(@, v.w)]
  /\ status' = IF v.threw THEN "threw" ELSE "running"
  /\ pos' = IF v.threw THEN pos ELSE pos + 1
  /\ UNCHANGED <<orig, pass, first, deduceVars, runVars>>

EnterVariableDeclarator ==
  /\ AtNode("VariableDeclarator")
  /\ Leave(VariableDeclarator(tree[pos]))

EnterFunctionDeclaration ==
  /\ AtNode("FunctionDeclaration")
  /\ Leave(FunctionDeclaration(tree[pos]))

EnterArrowFunctionExpression ==
  /\ AtNode("ArrowFunctionExpression")
  /\ Leave(ArrowFunctionExpression(tree[pos]))

\* a FunctionExpression: the visitor object has no entry for it
EnterFunctionExpression ==
  /\ AtNode("FunctionExpression")
  /\ Leave(NoVisitor(tree[pos]))

\* babelTraverse has entered every node: addTypeAnnotations returns
Return_addTypeAnnotations ==
  /\ status = "running"
  /\ pos > Len(tree)
  /\ status' = "done"
  /\ first' = IF pass = 1 THEN tree ELSE first
  /\ UNCHANGED <<tree, orig, pos, pass, writes, deduceVars, runVars>>

\* addTypeAnnotations is called again on the tree the first call annotated
Again ==
  /\ status = "done"
  /\ pass = 1
  /\ pass' = 2
  /\ pos' = 1
  /\ status' = "running"
  /\ writes' = [i \in 1..Len(tree) |-> NoWrites(tree[i])]
  /\ UNCHANGED <<tree, orig, first, deduceVars, runVars>>

NextAnnotate ==
  \/ EnterVariableDeclarator
  \/ EnterFunctionDeclaration
  \/ EnterArrowFunctionExpression
  \/ EnterFunctionExpression
  \/ Return_addTypeAnnotations
  \/ Again

SpecAnnotate == InitAnnotate /\ [][NextAnnotate]_vars

\* ---- SpecRun
InitRun ==
  /\ dirPath \in Dirs
  /\ listing \in Listings
  /\ fidx = 1
  /\ phase = "stat"
  /\ written = <<>>
  /\ failedAt = 0
  /\ IdleDeduce
  /\ IdleAnnotate

InFile(ph) == phase = ph /\ fidx <= Len(listing)

\* src/node_new.js:125-126: an entry that is no .js file is passed over
StatSync ==
  /\ InFile("stat")
  /\ IF IsJsFile(dirPath, listing[fidx])
     THEN phase' = "read" /\ fidx' = fidx
     ELSE phase' = "stat" /\ fidx' = fidx + 1
  /\ UNCHANGED <<dirPath, listing, written, failedAt, deduceVars, annotVars>>

Goto(to) ==
  /\ phase' = to
  /\ UNCHANGED <<dirPath, listing, fidx, written, failedAt, deduceVars, annotVars>>

\* src/node_new.js:112
ReadFileSync ==
  /\ InFile("read")
  /\ Goto("parse")

\* src/node_new.js:113
ParseJavaScript ==
  /\ InFile("parse")
  /\ Goto("annotate")

\* src/node_new.js:114
AddTypeAnnotations ==
  /\ InFile("annotate")
  /\ Goto("generate")

\* src/node_new.js:115
GenerateTypeScript ==
  /\ InFile("generate")
  /\ Goto("write")

\* src/node_new.js:116-118
WriteFileSync ==
  /\ InFile("write")
  /\ LET jsFilePath == join(dirPath, listing[fidx].name)
     IN written' = Append(written, [src |-> jsFilePath, dst |-> tsFilePath(jsFilePath)])
  /\ phase' = "stat"
  /\ fidx' = fidx + 1
  /\ UNCHANGED <<dirPath, listing, failedAt, deduceVars, annotVars>>

\* statSync, readFileSync, the parser, the annotation pass or writeFileSync throws
Throw ==
  /\ fidx <= Len(listing)
  /\ phase \in {"stat", "read", "parse", "annotate", "write"}
  /\ failedAt' = fidx
  /\ phase' = Uncaught(fidx, phase).phase
  /\ fidx' = Uncaught(fidx, phase).fidx
  /\ UNCHANGED <<dirPath, listing, written, deduceVars, annotVars>>

\* the forEach of line 124 ran out of entries
Return_transformJsFilesInDir ==
  /\ phase = "stat"
  /\ fidx > Len(listing)
  /\ phase' = "returned"
  /\ UNCHANGED <<dirPath, listing, fidx, written, failedAt, deduceVars, annotVars>>

NextRun ==
  \/ StatSync
  \/ ReadFileSync
  \/ ParseJavaScript
  \/ AddTypeAnnotations
  \/ GenerateTypeScript
  \/ WriteFileSync
  \/ Throw
  \/ Return_transformJsFilesInDir

SpecRun == InitRun /\ [][NextRun]_vars

Init == InitDeduce \/ InitAnnotate \/ InitRun
Next == NextDeduce \/ NextAnnotate \/ NextRun
Spec == Init /\ [][Next]_vars

\* ------------------------------------------------------------- the claims

ElementTags == {"null", "number", "string", "boolean", "undefined", "any"}

TypeTags ==
  {Keyword(k) : k \in {"TSNumberKeyword", "TSStringKeyword", "TSBooleanKeyword",
                       "TSNullKeyword", "TSUndefinedKeyword", "TSAnyKeyword"}}
    \cup {tsArrayType(e) : e \in ElementTags}

\* C1: the deducer is total: whatever expression it is given, it returns one
\* type tag; it never throws and never yields a missing tag.
C1_DeducerTotal == result # NotCalled => result \in TypeTags

\* The tag the documentation gives an expression of each shape.
DocumentedTags(e) ==
  CASE e.type = "NumericLiteral" -> {Keyword("TSNumberKeyword")}
    [] e.type = "StringLiteral"  -> {Keyword("TSStringKeyword")}
    [] e.type = "BooleanLiteral" -> {Keyword("TSBooleanKeyword")}
    [] e.type = "NullLiteral"    -> {Keyword("TSNullKeyword")}
    [] e.type = "Identifier" /\ e.name = "undefined" -> {Keyword("TSUndefinedKeyword")}
    [] e.type = "ArrayExpression" -> {tsArrayType(t) : t \in ElementTags}
    [] OTHER -> {Keyword("TSAnyKeyword")}

\* C2: deduceExpressionType returns the documented tag for each shape: the
\* keyword of a literal, undefined for the identifier `undefined`, array-of(E)
\* for an array literal, any for an absent input and every other shape.
C2_DocumentedTag == result # NotCalled => result \in DocumentedTags(expr)

\* The tag the documentation gives an array element.
DocumentedElementTag(el) ==
  CASE el = Hole -> "null"
    [] el.type = "NumericLiteral" -> "number"
    [] el.type = "StringLiteral"  -> "string"
    [] el.type = "BooleanLiteral" -> "boolean"
    [] el.type = "NullLiteral"    -> "null"
    [] el.type = "Identifier" /\ el.name = "undefined" -> "undefined"
    [] OTHER -> "any"

DocumentedElementType(elements) ==
  LET tags == {DocumentedElementTag(elements[i]) : i \in 1..Len(elements)}
  IN IF \E t \in tags : tags = {t} THEN CHOOSE t \in tags : TRUE ELSE "any"

\* C3: deduceElementType returns the single distinct tag of the elements when
\* there is exactly one, and `any` otherwise, where a hole counts as null and
\* every non-matching element (an identifier other than `undefined` too) as any.
C3_ElementUnification ==
  elemResult # "not-called" => elemResult = DocumentedElementType(expr.elements)

IsFunction(n) ==
  n.type \in {"FunctionDeclaration", "ArrowFunctionExpression", "FunctionExpression"}

\* C4: when the pass has completed, every declarator, every parameter and every
\* function (non-arrow function expressions too) has its annotation slot
\* populated, and no slot was assigned more than once during the pass.
C4_EverySlotOnce ==
  status = "done" =>
    \A i \in 1..Len(tree) :
      /\ tree[i].type = "VariableDeclarator" => tree[i].idAnnotation # Unset
      /\ IsFunction(tree[i]) =>
           /\ tree[i].returnType # Unset
           /\ \A k \in 1..Len(tree[i].params) : tree[i].params[k] # Unset
      /\ writes[i].id <= 1
      /\ writes[i].ret <= 1
      /\ \A k \in 1..Len(writes[i].params) : writes[i].params[k] <= 1

\* The return type the documentation gives a function: that of the last
\* immediate return statement with an argument, void when there is none.
MatchingReturns(body) ==
  {k \in 1..Len(body) : body[k].type = "ReturnStatement" /\ body[k].argument # Absent}

DocumentedReturnType(n) ==
  IF n.block
  THEN LET at == MatchingReturns(n.body)
       IN IF at = {} THEN Keyword("TSVoidKeyword")
          ELSE LET last == CHOOSE m \in at : \A o \in at : o <= m
               IN deduceExpressionType(n.body[last].argument)
  ELSE deduceExpressionType(n.bodyExpr)

\* The nodes the current pass has left behind it.
Visited == 1..(pos - 1)

\* C5: a function (a declaration, a function expression or an arrow function)
\* that had no return type gets void when its immediate statements hold no
\* return with an argument, else the deduced type of the last such return;
\* nested and bare returns do not count; an expression-bodied arrow function
\* gets the deduced type of its expression.
C5_ReturnType ==
  \A i \in Visited :
    IsFunction(tree[i]) /\ orig[i].returnType = Unset
      => tree[i].returnType = DocumentedReturnType(orig[i])

\* C6: after the pass a declarator's annotation is the deduced type of its
\* initializer, or any when it has none, and the initializer is left as it was.
C6_DeclaratorAnnotation ==
  \A i \in Visited :
    tree[i].type = "VariableDeclarator" =>
      /\ tree[i].idAnnotation =
           IF orig[i].init = Absent THEN Keyword("TSAnyKeyword")
           ELSE deduceExpressionType(orig[i].init)
      /\ tree[i].init = orig[i].init

C6_Witness ==
  /\ status = "done"
  /\ pass = 1
  /\ Len(tree) = 2
  /\ tree[1].type = "VariableDeclarator"
  /\ tree[1].init = Num
  /\ tree[1].idAnnotation = Keyword("TSNumberKeyword")
  /\ tree[2].type = "VariableDeclarator"
  /\ tree[2].init = Absent
  /\ tree[2].idAnnotation = Keyword("TSAnyKeyword")

\* The tree as it was when the current pass began.
Before == IF pass = 1 THEN orig ELSE first

\* C7: a function (a declaration, a function expression or an arrow function)
\* that carried a return type before the pass keeps it, and all its parameters
\* are set to any, whatever annotation they had.
C7_ReturnTypeKept ==
  \A i \in Visited :
    IsFunction(tree[i]) /\ Before[i].returnType # Unset =>
      /\ tree[i].returnType = Before[i].returnType
      /\ \A k \in 1..Len(tree[i].params) : tree[i].params[k] = Keyword("TSAnyKeyword")

\* The output path the documentation gives an input path: the same path with
\* its final .js replaced by .ts.
SiblingTs(jsFilePath) == SubSeq(jsFilePath, 1, Len(jsFilePath) - Len(JsSuffix)) \o TsSuffix

\* C8: every output is written beside its input, to the input path with the
\* file name's .js suffix replaced by .ts, also when .js occurs earlier in the path.
C8_SiblingOutput ==
  \A k \in 1..Len(written) : written[k].dst = SiblingTs(written[k].src)

RECURSIVE InputsAmong(_)
InputsAmong(k) ==
  IF k = 0 THEN <<>>
  ELSE IF IsJsFile(dirPath, listing[k])
       THEN Append(InputsAmong(k - 1), join(dirPath, listing[k].name))
       ELSE InputsAmong(k - 1)

\* The entries the run has finished with.
Completed == IF phase = "threw" THEN failedAt - 1 ELSE fidx - 1

\* C9: files are processed one after another in listing order, and a failure at
\* entry i ends the run: the outputs written are those of the .js files before
\* i, in order, none for i or any later entry, and nothing happens afterwards.
C9_SequentialUntilFailure ==
  /\ phase # "idle" =>
       [k \in 1..Len(written) |-> written[k].src] = InputsAmong(Completed)
  /\ phase = "threw" => failedAt = fidx /\ ~ENABLED NextRun
  /\ phase \in {"read", "parse", "annotate", "generate", "write"} =>
       fidx <= Len(listing) /\ IsJsFile(dirPath, listing[fidx])

C9_Witness ==
  /\ phase = "threw"
  /\ Len(listing) = 2
  /\ failedAt = 2
  /\ IsJsFile(dirPath, listing[2])
  /\ Len(written) = 1

\* C10: a second pass over the annotated tree leaves every declarator
\* annotation, parameter annotation and return type as the first pass set it.
C10_SecondPassSame ==
  pass = 2 =>
    /\ \A i \in Visited :
         /\ tree[i].idAnnotation = first[i].idAnnotation
         /\ tree[i].params = first[i].params
         /\ tree[i].returnType = first[i].returnType
    /\ status = "done" => tree = first

C10_Witness ==
  /\ pass = 2
  /\ status = "done"
  /\ Len(tree) = 2
  /\ tree[1].type = "VariableDeclarator"
  /\ orig[1].init = Num
  /\ tree[2].type = "ArrowFunctionExpression"
  /\ orig[2].returnType = Unset
  /\ orig[2].params = <<Pre>>
  /\ tree[2].returnType = Keyword("TSNumberKeyword")

=============================================================================
